---- MODULE Spec2Model ----
(***************************************************************************)
(* Model of utils/gemini_images_api.py: the shared key rotator (_State),   *)
(* the buffered orchestrator generate_or_edit_image_gemini and the         *)
(* streaming orchestrator generate_or_edit_image_gemini_stream.            *)
(*                                                                         *)
(* A "run" is one call of an orchestrator.  Its position (pc) moves        *)
(* between the suspension points of the coroutine: the lock of the         *)
(* rotator, the backoff sleep, the HTTP exchange and the reads of the      *)
(* response stream.  The backend is the environment: every response,       *)
(* stream line and chunk is chosen nondeterministically.                   *)
(***************************************************************************)
EXTENDS Integers, Sequences, FiniteSets, TLC

VARIABLES api_key_index, lock, run, clients, clock, files, last,
          tool, config, group_call_bucket, now, checks

vars == <<api_key_index, lock, run, clients, clock, files, last,
          tool, config, group_call_bucket, now, checks>>

(* The state of the plugin of main.py: the position of one invocation of   *)
(* gemini_image_tool, the configuration of the group control, the buckets  *)
(* of the group rate limit, the value of time.time(), and the record of    *)
(* the commands handled so far.                                            *)
group == <<config, group_call_bucket, now, checks>>
plugin == <<tool, group>>

(* The images directory and the wall clock, and the record of the last     *)
(* direct call of the persister or of the parser.                          *)
disk == <<clock, files, last>>

(* ------------------------------ bounds --------------------------------- *)
MaxKeys == 2
MaxAttempts == 3
MaxFrames == 4
MaxOps == 2
MaxCalls == 2
MaxTime == 3
MaxChecks == 4

Runs == {1, 2}
Free == 0

Min(a, b) == IF a < b THEN a ELSE b

Range(s) == {s[i] : i \in 1..Len(s)}

(* --------------------------- abstract JSON ----------------------------- *)
(* A decoded body or frame.  json: the text is valid JSON; dict: it is a   *)
(* JSON object; error: it has a non-empty "error" member; cands: the       *)
(* "candidates" list, each candidate given by the list of its parts.       *)
(* A part is "text" (no inline data), "inline_ok" (inline data that is     *)
(* valid base64), "inline_bad" (inline data that base64 cannot decode) or  *)
(* "inline_empty" (an inline member whose data is empty).                  *)
Doc(j, d, e, c) == [json |-> j, dict |-> d, error |-> e, cands |-> c]

D_notjson == Doc(FALSE, FALSE, FALSE, <<>>)
D_list == Doc(TRUE, FALSE, FALSE, <<>>)
D_error == Doc(TRUE, TRUE, TRUE, <<>>)
D_error_img == Doc(TRUE, TRUE, TRUE, <<(<<"inline_ok">>)>>)
D_empty == Doc(TRUE, TRUE, FALSE, <<>>)
D_text == Doc(TRUE, TRUE, FALSE, <<(<<"text">>)>>)
D_img == Doc(TRUE, TRUE, FALSE, <<(<<"inline_ok">>)>>)
D_text_img == Doc(TRUE, TRUE, FALSE, <<(<<"text", "inline_ok">>)>>)
D_bad == Doc(TRUE, TRUE, FALSE, <<(<<"inline_bad">>)>>)
D_emptydata_img == Doc(TRUE, TRUE, FALSE, <<(<<"inline_empty", "inline_ok">>)>>)
D_second == Doc(TRUE, TRUE, FALSE, <<(<<"text">>), (<<"inline_ok">>)>>)

Docs == {D_notjson, D_list, D_error, D_error_img, D_empty, D_text, D_img,
         D_text_img, D_bad, D_emptydata_img, D_second}

(* ------------------------------ persister ------------------------------ *)
(* uuid.uuid4().hex[:8] is random; datetime.now() is cut to the second.    *)
Uids == {1, 2}
Seconds == {0, 1}

(* A string is a sequence of pieces of text.  HDR is the header of a data  *)
(* URL up to the comma; QUJD is the base64 of the bytes "ABC"; A is one    *)
(* base64 character, which is not a complete quantum.                      *)
HDR == "data:image/png;base64"
COMMA == ","
Payloads == {<<"QUJD">>, <<"A">>, <<>>}
DataUrl(p) == <<HDR, COMMA>> \o p
DataInputs ==
    Payloads \cup {DataUrl(p) : p \in Payloads} \cup {<<HDR, "QUJD">>, <<HDR, "A">>}

(* The number of characters of the base64 alphabet in a piece of text:     *)
(* b64decode drops every other character before it decodes.                *)
AlphaLen(tok) ==
    CASE tok = HDR -> 19
      [] tok = COMMA -> 0
      [] tok = "QUJD" -> 4
      [] tok = "A" -> 1

(* The bytes a piece of text decodes to; the header decodes to the bytes   *)
(* of "dataimage/pngbase64", of which the first three stand for all.       *)
TokBytes(tok) ==
    CASE tok = HDR -> <<117, 171, 90>>
      [] tok = "QUJD" -> <<65, 66, 67>>
      [] OTHER -> <<>>

RECURSIVE AlphaCount(_)
AlphaCount(text) ==
    IF text = <<>> THEN 0 ELSE AlphaLen(Head(text)) + AlphaCount(Tail(text))

RECURSIVE DecodedBytes(_)
DecodedBytes(text) ==
    IF text = <<>> THEN <<>> ELSE TokBytes(Head(text)) \o DecodedBytes(Tail(text))

(* base64.b64decode(text): binascii.Error when the characters of the       *)
(* alphabet do not make whole quanta.                                      *)
b64decode(text) ==
    IF AlphaCount(text) % 4 # 0 THEN [raised |-> TRUE, bytes |-> <<>>]
    ELSE [raised |-> FALSE, bytes |-> DecodedBytes(text)]

(* if data_b64.startswith("data:"): header, b64 = data_b64.split(",", 1);  *)
(* without a comma the unpacking raises and the text is left as it is.     *)
StripDataUrl_KeepHeader(text) == text
StripDataUrl(text) ==
    IF text # <<>> /\ Head(text) = HDR /\ COMMA \in Range(text)
    THEN SubSeq(text, (CHOOSE i \in 1..Len(text) :
                          text[i] = COMMA /\ \A j \in 1..(i-1) : text[j] # COMMA) + 1,
                Len(text))
    ELSE text

(* A MIME type: absent (None), or a text given by its pieces.              *)
NoMime == [present |-> FALSE, text |-> <<>>]
Mime(t) == [present |-> TRUE, text |-> t]
Mimes ==
    {NoMime, Mime(<<>>), Mime(<<"image/", "jpeg">>), Mime(<<"image/", "jpg">>),
     Mime(<<"image/", "webp">>), Mime(<<"image/", "png">>),
     Mime(<<"image/", "gif">>), Mime(<<"IMAGE/", "JPEG">>)}

(* "word" in mime                                                          *)
In(word, mime) == word \in Range(mime.text)

(* The suffix chosen by _decode_and_save_base64: "if mime" is false for    *)
(* None and for the empty string.                                          *)
SuffixOf_NoWebp(mime) ==
    IF ~mime.present \/ mime.text = <<>> THEN "png"
    ELSE IF In("jpeg", mime) THEN "jpg"
    ELSE IF In("jpg", mime) THEN "jpg"
    ELSE "png"
SuffixOf(mime) ==
    IF ~mime.present \/ mime.text = <<>> THEN "png"
    ELSE IF In("jpeg", mime) THEN "jpg"
    ELSE IF In("jpg", mime) THEN "jpg"
    ELSE IF In("webp", mime) THEN "webp"
    ELSE IF In("png", mime) THEN "png"
    ELSE "png"

(* images_dir / f"gemini_image_{ts}_{uid}.{suffix}"                        *)
FilePath(ts, uid, suffix) == [ts |-> ts, uid |-> uid, suffix |-> suffix]

(* file_path.write_bytes(content): the file is created or truncated.       *)
WriteBytes(fs, path, content) ==
    [q \in DOMAIN fs \cup {path} |-> IF q = path THEN content ELSE fs[q]]

(* _save_bytes, which has no await: one step of the event loop.            *)
save_bytes_NoWrite(content, suffix, ts, uid, fs) ==
    [path |-> FilePath(ts, uid, suffix), files |-> fs]
save_bytes(content, suffix, ts, uid, fs) ==
    [path |-> FilePath(ts, uid, suffix),
     files |-> WriteBytes(fs, FilePath(ts, uid, suffix), content)]

(* _decode_and_save_base64: what was decoded, under which suffix, the      *)
(* path returned and the directory afterwards; raised when b64decode       *)
(* raises, and then nothing is written.                                    *)
decode_and_save_base64(data_b64, mime, ts, uid, fs) ==
    LET raw == b64decode(StripDataUrl(data_b64))
        saved == save_bytes(raw.bytes, SuffixOf(mime), ts, uid, fs)
    IN IF raw.raised
       THEN [raised |-> TRUE, bytes |-> <<>>, suffix |-> "",
             path |-> FilePath(0, 0, ""), files |-> fs]
       ELSE [raised |-> FALSE, bytes |-> raw.bytes, suffix |-> SuffixOf(mime),
             path |-> saved.path, files |-> saved.files]

(* inline.get("data") and inline.get("mime_type") or inline.get("mimeType") *)
(* of a part.                                                              *)
PartData(part) ==
    CASE part = "inline_ok" -> <<"QUJD">>
      [] part = "inline_bad" -> <<"A">>
      [] OTHER -> <<>>
PartMime(part) == Mime(<<"image/", "png">>)

(* base64.b64decode of the payload of a part, then _save_bytes.            *)
DecodeAndSave(part) ==
    IF b64decode(StripDataUrl(PartData(part))).raised THEN "raise" ELSE "image"

(* The scan of candidates[0].content.parts: the first part that has an     *)
(* inline member with non-empty data is decoded and saved; "none" when     *)
(* there is no such part.                                                  *)
RECURSIVE ScanParts(_)
ScanParts(parts) ==
    IF parts = <<>> THEN "none"
    ELSE IF Head(parts) \in {"inline_ok", "inline_bad"}
         THEN DecodeAndSave(Head(parts))
         ELSE ScanParts(Tail(parts))

ScanCandidates(doc) ==
    IF doc.cands = <<>> THEN "none" ELSE ScanParts(doc.cands[1])

(* The part that the scan hands to _decode_and_save_base64.                *)
RECURSIVE FirstInline(_)
FirstInline(parts) ==
    IF parts = <<>> THEN "text"
    ELSE IF Head(parts) \in {"inline_ok", "inline_bad"} THEN Head(parts)
    ELSE FirstInline(Tail(parts))

(* The call of _decode_and_save_base64 made by the scan of doc.            *)
SavedBy(doc, ts, uid, fs) ==
    decode_and_save_base64(PartData(FirstInline(doc.cands[1])),
                           PartMime(FirstInline(doc.cands[1])), ts, uid, fs)

(* _parse_generate_content_json_for_image: the scan inside try/except, so  *)
(* a value that is not an object and a decode error both give no image.    *)
ParseForImage(doc) ==
    IF ~doc.dict THEN "none"
    ELSE IF ScanCandidates(doc) = "image" THEN "image" ELSE "none"

(* ----------------------------- responses ------------------------------- *)
Statuses == {200, 302, 400, 429, 499, 500}
CTypes == {"text/event-stream", "application/json"}

Resp(k, s, c, d) == [kind |-> k, status |-> s, ctype |-> c, doc |-> d]

(* The exchange raises: httpx.ConnectError, httpx.ReadTimeout or any other  *)
(* exception; both except clauses of the attempt loop do the same.         *)
TransportError == Resp("transport", 0, "", D_notjson)

(* What the backend can answer to the buffered POST (the whole body) and   *)
(* to the streaming POST (the response head).                              *)
BufferedResponses ==
    {TransportError}
    \cup {Resp("http", s, "", D_notjson) : s \in Statuses \ {200}}
    \cup {Resp("http", 200, "application/json", d) : d \in Docs}
StreamResponses ==
    {TransportError}
    \cup {Resp("http", s, "", D_notjson) : s \in Statuses \ {200}}
    \cup {Resp("http", 200, c, D_notjson) : c \in CTypes}

(* ------------------------------- log ----------------------------------- *)
(* The log of a run holds the sleeps and the finished exchanges of the     *)
(* current key pass, in order.                                             *)
PostEntry(k, s, o) ==
    [op |-> "post", key |-> k, status |-> s, out |-> o, d |-> 0]
SleepEntry(k, dur) ==
    [op |-> "sleep", key |-> k, status |-> 0, out |-> "", d |-> dur]

(* ------------------------------ run state ------------------------------ *)
NoPath == FilePath(0, 0, "")
EmptyDir == [q \in {} |-> <<>>]

(* The record of a direct call: fn is the function called, n the number   *)
(* of direct calls so far, existed whether the path written was there      *)
(* before, scan what the scan of the document found.                       *)
NoCall ==
    [fn |-> "", n |-> 0, data |-> <<>>, mime |-> NoMime, doc |-> D_notjson,
     raised |-> FALSE, bytes |-> <<>>, suffix |-> "", path |-> NoPath,
     existed |-> FALSE, scan |-> ""]

(* idx0 is the value of _state.api_key_index when the orchestrator was     *)
(* called, tried the keys that get_next_key gave to the run, in order,     *)
(* sent the requests of the current key pass, in order, errline whether    *)
(* a line with an error member was decoded in the exchange under way,      *)
(* tail what was left in buf when the body of the last exchange ended.     *)
IdleRun ==
    [pc |-> "idle", mode |-> "", api_keys |-> <<>>, max_retry_attempts |-> 0,
     key_attempt |-> 0, attempt |-> 0, current_key |-> 0, result |-> "",
     peeked |-> 0, posts |-> 0, nsleeps |-> 0, rotations |-> 0,
     onlyTransient |-> TRUE, onlyTransport |-> TRUE, log |-> <<>>,
     ctype |-> "", frames |-> 0, firstImg |-> 0, buf |-> <<>>,
     idx0 |-> 0, tried |-> <<>>, path |-> NoPath, sent |-> <<>>,
     errline |-> FALSE, tail |-> <<>>]

(* gemini_image_tool before it is invoked: pc is its position, keys and    *)
(* m the api_keys and max_retry_attempts it passes, endpoint the           *)
(* endpoint_path of the call it makes, calls the orchestrators that have   *)
(* returned with what they returned, image_path its local variable, out    *)
(* the results it has yielded.                                             *)
IdleTool ==
    [pc |-> "idle", keys |-> <<>>, m |-> 0, endpoint |-> "", calls |-> <<>>,
     image_path |-> NoPath, out |-> <<>>]

(* self._group_call_bucket = {}                                            *)
NoBuckets == [g \in {} |-> [window_start |-> 0, count |-> 0]]

(* The group control of the plugin: group_control_mode, group_list,        *)
(* group_rate_window_seconds and group_rate_max_calls; by default the      *)
(* mode is "off", the list empty, the window 3600 s and the limit 10.      *)
GroupConfig(mode, list, window, max) ==
    [group_control_mode |-> mode, group_list |-> list,
     group_rate_window_seconds |-> window, group_rate_max_calls |-> max]
DefaultConfig == GroupConfig("off", {}, 3600, 10)

(* The commands handled so far: calls has, for each call of                *)
(* _check_group_access, the group, the time and the message returned;      *)
(* before is self._group_call_bucket as it was before the last call and    *)
(* then what the handler went on to do after it.                           *)
NoChecks == [calls |-> <<>>, before |-> NoBuckets, then |-> ""]

Init ==
    /\ api_key_index = 0
    /\ lock = Free
    /\ run = [r \in Runs |-> IdleRun]
    /\ clients = {1}
    /\ clock = 0
    /\ files = EmptyDir
    /\ last = NoCall
    /\ tool = IdleTool
    /\ config = DefaultConfig
    /\ group_call_bucket = NoBuckets
    /\ now = 0
    /\ checks = NoChecks

(* The argument api_keys: a list of keys, or a bare string.                *)
KeyList(n) == [i \in 1..n |-> i]
KeyInputs ==
    {[isstr |-> FALSE, val |-> KeyList(n)] : n \in 0..MaxKeys}
    \cup {[isstr |-> TRUE, val |-> <<1>>]}

(* The empty string as a credential: main.py passes [""] when no password  *)
(* is configured.                                                          *)
EmptyKey == 0

NormalizeKeys(in) == IF in.isstr THEN <<in.val[1]>> ELSE in.val

(* ------------------------------ _State --------------------------------- *)
(* _State.get_next_key under the lock: raises ValueError on an empty list, *)
(* else gives keys[api_key_index % len(keys)].                             *)
get_next_key(keys, idx) ==
    IF keys = <<>> THEN [raised |-> TRUE, key |-> 0]
    ELSE [raised |-> FALSE, key |-> keys[(idx % Len(keys)) + 1]]

(* _State.rotate under the lock: the new value of api_key_index.           *)
rotate(keys, idx) ==
    IF keys # <<>> THEN (idx + 1) % Len(keys) ELSE idx

(* --------------------------- control flow ------------------------------ *)
(* min(2 ** attempt, 10)                                                   *)
BackoffCap == 10
Backoff_Constant(attempt) == Min(2, BackoffCap)
Backoff(attempt) == Min(2 ^ attempt, BackoffCap)

(* "continue" in the attempt loop: the next iteration starts with the      *)
(* backoff sleep; when range(max_retry_attempts) is used up the loop ends  *)
(* and the run goes to rotate.                                             *)
Continue_Unbounded(s) == [s EXCEPT !.attempt = @ + 1, !.pc = "sleep"]
Continue(s) ==
    IF s.attempt + 1 < s.max_retry_attempts
    THEN [s EXCEPT !.attempt = @ + 1, !.pc = "sleep"]
    ELSE [s EXCEPT !.pc = "rotate"]

(* "break" in the attempt loop.                                            *)
Break(s) == [s EXCEPT !.pc = "rotate"]

(* "return image_url, image_path" / "return None, None".                   *)
Return(s, res) == [s EXCEPT !.pc = "done", !.result = res]

(* The response is released when the exchange is left.                     *)
EndExchange(s) ==
    [s EXCEPT !.ctype = "", !.frames = 0, !.firstImg = 0, !.buf = <<>>,
              !.errline = FALSE]

IsTransient(resp) ==
    \/ resp.kind = "transport"
    \/ resp.kind = "http" /\ (resp.status = 429 \/ resp.status >= 500)

Logged(s, status, out) ==
    [s EXCEPT !.log = Append(@, PostEntry(s.current_key, status, out))]

(* The buffered orchestrator's tests of resp.status_code, in order.        *)
StatusOutcome_429Break(status) ==
    IF status = 429 THEN "break"
    ELSE IF status >= 500 THEN "continue"
    ELSE IF status # 200 THEN "break"
    ELSE "ok"
StatusOutcome_5xxBreak(status) ==
    IF status = 429 THEN "continue"
    ELSE IF status # 200 THEN "break"
    ELSE "ok"
StatusOutcome_4xxContinue(status) ==
    IF status # 200 THEN "continue" ELSE "ok"
StatusOutcome(status) ==
    IF status = 429 THEN "continue"
    ELSE IF status >= 500 THEN "continue"
    ELSE IF status # 200 THEN "break"
    ELSE "ok"

(* The buffered orchestrator's handling of the body of a 200 response:     *)
(* resp.json(), the error member, the scan for an inline image.  An        *)
(* exception is caught by "except Exception" and continues the loop.       *)
BodyOutcome_ImageContinue(doc) ==
    IF ~doc.json THEN [ctl |-> "continue", out |-> "badjson"]
    ELSE IF ~doc.dict THEN [ctl |-> "return_none", out |-> "noimage"]
    ELSE IF doc.error THEN [ctl |-> "return_none", out |-> "error200"]
    ELSE IF ScanCandidates(doc) = "image"
         THEN [ctl |-> "continue", out |-> "image"]
    ELSE IF ScanCandidates(doc) = "raise"
         THEN [ctl |-> "continue", out |-> "malformed"]
    ELSE [ctl |-> "return_none", out |-> "noimage"]
BodyOutcome(doc) ==
    IF ~doc.json THEN [ctl |-> "continue", out |-> "badjson"]
    ELSE IF ~doc.dict THEN [ctl |-> "return_none", out |-> "noimage"]
    ELSE IF doc.error THEN [ctl |-> "return_none", out |-> "error200"]
    ELSE IF ScanCandidates(doc) = "image"
         THEN [ctl |-> "return_image", out |-> "image"]
    ELSE IF ScanCandidates(doc) = "raise"
         THEN [ctl |-> "continue", out |-> "malformed"]
    ELSE [ctl |-> "return_none", out |-> "noimage"]

(* What the buffered orchestrator does with the result of one POST: ctl    *)
(* is the control transfer, out the label of the outcome.                  *)
BufferedOutcome(resp) ==
    IF resp.kind = "transport" THEN [ctl |-> "continue", out |-> "transport"]
    ELSE IF StatusOutcome(resp.status) = "ok" THEN BodyOutcome(resp.doc)
    ELSE [ctl |-> StatusOutcome(resp.status), out |-> "http"]

Transfer(s, ctl) ==
    CASE ctl = "continue" -> Continue(s)
      [] ctl = "break" -> Break(s)
      [] ctl = "return_none" -> Return(s, "none")
      [] ctl = "return_image" -> Return(s, "image")

(* ------------------------------ actions -------------------------------- *)
(* The event loop runs one coroutine at a time, up to its next await: a    *)
(* run is suspended while it sleeps, while its exchange is in flight and   *)
(* while it waits for the next line or chunk of the stream.  A run takes   *)
(* a step only when every other run is suspended, not called yet or done.  *)
Suspended == {"idle", "done", "sleep", "inflight", "sse", "ndjson"}
Scheduled(r) == \A q \in Runs \ {r} : run[q].pc \in Suspended

(* A call of one of the two orchestrators, up to the first await.          *)
Call_NoEmptyCheck(r, mode, in, m) ==
    /\ r \in clients
    /\ run[r].pc = "idle"
    /\ Scheduled(r)
    /\ LET keys == NormalizeKeys(in)
           s == [IdleRun EXCEPT !.mode = mode, !.api_keys = keys,
                                !.max_retry_attempts = m,
                                !.idx0 = api_key_index]
       IN run' = [run EXCEPT ![r] = [s EXCEPT !.pc = "getkey"]]
    /\ UNCHANGED <<api_key_index, lock, clients, plugin, disk>>
Call(r, mode, in, m) ==
    /\ r \in clients
    /\ run[r].pc = "idle"
    /\ Scheduled(r)
    /\ LET keys == NormalizeKeys(in)
           s == [IdleRun EXCEPT !.mode = mode, !.api_keys = keys,
                                !.max_retry_attempts = m,
                                !.idx0 = api_key_index]
       IN run' = [run EXCEPT ![r] =
                    IF keys = <<>> THEN Return(s, "none")
                    ELSE [s EXCEPT !.pc = "getkey"]]
    /\ UNCHANGED <<api_key_index, lock, clients, plugin, disk>>

(* async with self._lock: the lock is taken when the block is entered and  *)
(* given back when it is left, whether by return or by an exception.       *)
acquire(l, r) == r
release_Never(l, r) == l
release(l, r) == IF l = r THEN Free ELSE l

(* await _state.get_next_key(api_keys), then the head of the attempt       *)
(* loop.  Taking an asyncio.Lock that is free does not suspend, and the    *)
(* body under the lock has no await, so the lock is taken and released     *)
(* within one step of the event loop.  The call is outside the try block   *)
(* of the orchestrator, so a ValueError would leave the orchestrator as    *)
(* an exception.                                                           *)
GetNextKey(r) ==
    /\ run[r].pc = "getkey"
    /\ lock = Free
    /\ Scheduled(r)
    /\ LET s == run[r]
           got == get_next_key(s.api_keys, api_key_index)
       IN run' = [run EXCEPT ![r] =
                    IF got.raised THEN [s EXCEPT !.pc = "raised"]
                    ELSE [s EXCEPT !.current_key = got.key,
                                   !.peeked = api_key_index,
                                   !.tried = Append(@, got.key),
                                   !.attempt = 0, !.log = <<>>,
                                   !.sent = <<>>,
                                   !.pc = IF s.max_retry_attempts > 0
                                          THEN "post" ELSE "rotate"]]
    /\ lock' = release(acquire(lock, r), r)
    /\ UNCHANGED <<api_key_index, clients, plugin, disk>>

(* await asyncio.sleep(min(2 ** attempt, 10)) when attempt > 0.            *)
Sleep(r) ==
    /\ run[r].pc = "sleep"
    /\ Scheduled(r)
    /\ LET s == run[r]
       IN run' = [run EXCEPT ![r] =
                    [s EXCEPT !.pc = "post", !.nsleeps = @ + 1,
                              !.log = Append(@, SleepEntry(s.current_key,
                                                           Backoff(s.attempt)))]]
    /\ UNCHANGED <<api_key_index, lock, clients, plugin, disk>>

(* The credential in the request: the query parameter key= and the two    *)
(* headers, all left out when current_key is the empty string.             *)
BuildRequest(current_key) ==
    IF current_key # EmptyKey
    THEN [query |-> <<current_key>>, x_goog_api_key |-> <<current_key>>,
          authorization |-> <<"Bearer", current_key>>]
    ELSE [query |-> <<>>, x_goog_api_key |-> <<>>, authorization |-> <<>>]

(* The request is built with current_key and sent.                         *)
Post_KeyAtCursor(r) ==
    /\ run[r].pc = "post"
    /\ Scheduled(r)
    /\ run' = [run EXCEPT
                 ![r].pc = "inflight", ![r].posts = @ + 1,
                 ![r].sent = Append(@, BuildRequest(
                     get_next_key(run[r].api_keys, api_key_index).key)),
                 ![r].tail = <<>>]
    /\ UNCHANGED <<api_key_index, lock, clients, plugin, disk>>
Post(r) ==
    /\ run[r].pc = "post"
    /\ Scheduled(r)
    /\ run' = [run EXCEPT
                 ![r].pc = "inflight", ![r].posts = @ + 1,
                 ![r].sent = Append(@, BuildRequest(run[r].current_key)),
                 ![r].tail = <<>>]
    /\ UNCHANGED <<api_key_index, lock, clients, plugin, disk>>

(* Buffered orchestrator: the exchange ends and its result is handled.     *)
RecvBuffered(r, resp) ==
    /\ run[r].pc = "inflight"
    /\ run[r].mode = "buffered"
    /\ Scheduled(r)
    /\ LET s == run[r]
           o == BufferedOutcome(resp)
           t == [Logged(s, resp.status, o.out)
                   EXCEPT !.onlyTransient = @ /\ IsTransient(resp),
                          !.onlyTransport = @ /\ resp.kind = "transport"]
       IN IF o.out = "image"
          THEN \E uid \in Uids :
                  LET saved == SavedBy(resp.doc, clock, uid, files)
                  IN /\ run' = [run EXCEPT ![r] =
                                  Transfer([t EXCEPT !.path = saved.path],
                                           o.ctl)]
                     /\ files' = saved.files
          ELSE /\ run' = [run EXCEPT ![r] = Transfer(t, o.ctl)]
               /\ files' = files
    /\ UNCHANGED <<api_key_index, lock, clients, plugin, clock, last>>

(* await _state.rotate(api_keys), taken and released within one step as   *)
(* in get_next_key, then the head of the key loop.                         *)
Rotate(r) ==
    /\ run[r].pc = "rotate"
    /\ lock = Free
    /\ Scheduled(r)
    /\ LET s == run[r]
       IN /\ api_key_index' = rotate(s.api_keys, api_key_index)
          /\ run' = [run EXCEPT ![r] =
                       IF s.key_attempt + 1 < Len(s.api_keys)
                       THEN [s EXCEPT !.key_attempt = @ + 1, !.rotations = @ + 1,
                                      !.pc = "getkey"]
                       ELSE Return([s EXCEPT !.key_attempt = @ + 1,
                                             !.rotations = @ + 1], "none")]
    /\ lock' = release(acquire(lock, r), r)
    /\ UNCHANGED <<clients, plugin, disk>>

(* ------------------------- streaming exchange -------------------------- *)
(* What the streaming orchestrator does when the response head arrives:    *)
(* any status other than 200 leaves the attempt loop.                      *)
StreamStatusOutcome(resp) ==
    IF resp.kind = "transport" THEN [ctl |-> "continue", out |-> "transport"]
    ELSE IF resp.status # 200 THEN [ctl |-> "break", out |-> "http"]
    ELSE [ctl |-> "open", out |-> ""]

IsSSE(ctype) == ctype = "text/event-stream"

(* A line of an SSE body: its prefix, whether the data payload is the      *)
(* literal [DONE] / DONE, and otherwise the payload.                       *)
SseLine(p, dn, d) == [pfx |-> p, done |-> dn, doc |-> d]
SseLines ==
    {SseLine(p, FALSE, D_notjson) : p \in {"", ":", "event:"}}
    \cup {SseLine("data:", TRUE, D_notjson)}
    \cup {SseLine("data:", FALSE, d) : d \in Docs}

(* The line is a data frame, without error member, that carries an inline  *)
(* image which base64 decodes.                                             *)
YieldsImage(line) ==
    /\ line.pfx = "data:" /\ ~line.done
    /\ line.doc.json /\ line.doc.dict /\ ~line.doc.error
    /\ ScanCandidates(line.doc) = "image"

(* The body of "async for line in resp.aiter_lines()" for one line:        *)
(* next = go on reading, stop = break out of the read loop.                *)
SseLineOutcome_Drain(line) ==
    IF line.pfx # "data:" THEN [ctl |-> "next", out |-> ""]
    ELSE IF line.done THEN [ctl |-> "stop", out |-> "done"]
    ELSE IF ~line.doc.json THEN [ctl |-> "next", out |-> ""]
    ELSE IF line.doc.dict /\ line.doc.error
         THEN [ctl |-> "stop", out |-> "errframe"]
    ELSE [ctl |-> "next", out |-> ""]
SseLineOutcome(line) ==
    IF line.pfx # "data:" THEN [ctl |-> "next", out |-> ""]
    ELSE IF line.done THEN [ctl |-> "stop", out |-> "done"]
    ELSE IF ~line.doc.json THEN [ctl |-> "next", out |-> ""]
    ELSE IF line.doc.dict /\ line.doc.error
         THEN [ctl |-> "stop", out |-> "errframe"]
    ELSE IF ParseForImage(line.doc) = "image"
         THEN [ctl |-> "return_image", out |-> "image"]
    ELSE [ctl |-> "next", out |-> ""]

(* Bytes of a body that is not SSE, as tokens: a newline, or the text of   *)
(* one JSON document; "junk" is text that is no JSON document (two         *)
(* documents on one line).                                                 *)
NL == "NL"
NdTokens == {NL, "err", "img", "text"}
TokenDoc(t) ==
    CASE t = "err" -> D_error
      [] t = "img" -> D_img
      [] t = "text" -> D_text
      [] OTHER -> D_notjson

(* A chunk: a piece of text or a newline, one whole line, or an error      *)
(* line followed by an image line.                                         *)
Chunks ==
    {<<t>> : t \in NdTokens}
    \cup {<<t, NL>> : t \in NdTokens}
    \cup {<<"err", NL, "img", NL>>}

(* buf += chunk: text that is not separated by a newline runs together.    *)
RECURSIVE Glue(_)
Glue(seq) ==
    IF Len(seq) < 2 THEN seq
    ELSE IF seq[1] # NL /\ seq[2] # NL
         THEN Glue(<<"junk">> \o SubSeq(seq, 3, Len(seq)))
         ELSE <<seq[1]>> \o Glue(Tail(seq))

FirstNL(seq) == CHOOSE i \in 1..Len(seq) : seq[i] = NL /\ \A j \in 1..(i-1) : seq[j] # NL

(* while b"\n" in buf: split off one line and handle it.  An error line    *)
(* breaks out of this while loop only: the rest of the buffer stays and    *)
(* the loop over the chunks goes on.  err says that an error line was      *)
(* met.                                                                    *)
RECURSIVE NdWhile(_)
NdWhile(buf) ==
    IF NL \notin Range(buf) THEN [buf |-> buf, ctl |-> "next", err |-> FALSE]
    ELSE LET i == FirstNL(buf)
             line == SubSeq(buf, 1, i - 1)
             rest == SubSeq(buf, i + 1, Len(buf))
             doc == TokenDoc(line[1])
         IN IF line = <<>> THEN NdWhile(rest)
            ELSE IF ~doc.json THEN NdWhile(rest)
            ELSE IF doc.dict /\ doc.error
                 THEN [buf |-> rest, ctl |-> "next", err |-> TRUE]
            ELSE IF ParseForImage(doc) = "image"
                 THEN [buf |-> rest, ctl |-> "return_image", err |-> FALSE]
            ELSE NdWhile(rest)

(* Streaming orchestrator: the response head arrives.                      *)
RecvStream(r, resp) ==
    /\ run[r].pc = "inflight"
    /\ run[r].mode = "stream"
    /\ Scheduled(r)
    /\ LET s == run[r]
           o == StreamStatusOutcome(resp)
           t == [Logged(s, resp.status, o.out)
                   EXCEPT !.onlyTransient = @ /\ IsTransient(resp),
                          !.onlyTransport = @ /\ resp.kind = "transport"]
       IN run' = [run EXCEPT ![r] =
                    IF o.ctl = "open"
                    THEN [s EXCEPT !.ctype = resp.ctype,
                                   !.pc = IF IsSSE(resp.ctype) THEN "sse"
                                          ELSE "ndjson"]
                    ELSE Transfer(t, o.ctl)]
    /\ UNCHANGED <<api_key_index, lock, clients, plugin, disk>>

(* One line of an SSE body is read and handled; frames counts the data     *)
(* lines of the exchange.                                                  *)
ReadLine(r, line) ==
    /\ run[r].pc = "sse"
    /\ run[r].frames < MaxFrames
    /\ Scheduled(r)
    /\ LET s == run[r]
           o == SseLineOutcome(line)
           s1 == [s EXCEPT !.frames = IF line.pfx = "data:" THEN @ + 1 ELSE @,
                           !.firstImg = IF @ = 0 /\ YieldsImage(line)
                                        THEN s.frames + 1 ELSE @]
           s2 == [Logged(s1, 200, o.out)
                    EXCEPT !.onlyTransient = FALSE, !.onlyTransport = FALSE]
       IN IF o.out = "image"
          THEN \E uid \in Uids :
                  LET saved == SavedBy(line.doc, clock, uid, files)
                  IN /\ run' = [run EXCEPT ![r] =
                                  Return([s2 EXCEPT !.path = saved.path],
                                         "image")]
                     /\ files' = saved.files
          ELSE /\ run' = [run EXCEPT ![r] =
                            IF o.ctl = "next" THEN s1
                            ELSE Continue(EndExchange(s2))]
               /\ files' = files
    /\ UNCHANGED <<api_key_index, lock, clients, plugin, clock, last>>

(* One chunk of a body that is not SSE is read and handled.                *)
ReadChunk(r, chunk) ==
    /\ run[r].pc = "ndjson"
    /\ Scheduled(r)
    /\ LET s == run[r]
           o == NdWhile(Glue(s.buf \o chunk))
           s1 == [s EXCEPT !.buf = o.buf, !.errline = @ \/ o.err]
           s2 == [Logged(s1, 200, "image")
                    EXCEPT !.onlyTransient = FALSE, !.onlyTransport = FALSE]
       IN IF o.ctl = "return_image"
          THEN \E uid \in Uids :
                  LET saved == SavedBy(TokenDoc("img"), clock, uid, files)
                  IN /\ run' = [run EXCEPT ![r] =
                                  Return([s2 EXCEPT !.path = saved.path],
                                         "image")]
                     /\ files' = saved.files
          ELSE /\ run' = [run EXCEPT ![r] = s1]
               /\ files' = files
    /\ UNCHANGED <<api_key_index, lock, clients, plugin, clock, last>>

(* The body ends: the read loop is left and so is the attempt; what is     *)
(* in buf is dropped with it.                                              *)
StreamEnd_ParseTail(r) ==
    /\ run[r].pc \in {"sse", "ndjson"}
    /\ Scheduled(r)
    /\ LET s == run[r]
           s2 == [Logged(s, 200, "eos")
                    EXCEPT !.onlyTransient = FALSE, !.onlyTransport = FALSE,
                           !.tail = s.buf]
       IN run' = [run EXCEPT ![r] =
                    IF NdWhile(Glue(s.buf \o <<NL>>)).ctl = "return_image"
                    THEN Return(s2, "image")
                    ELSE Continue(EndExchange(s2))]
    /\ UNCHANGED <<api_key_index, lock, clients, plugin, disk>>
StreamEnd(r) ==
    /\ run[r].pc \in {"sse", "ndjson"}
    /\ Scheduled(r)
    /\ LET s == run[r]
           s2 == [Logged(s, 200, "eos")
                    EXCEPT !.onlyTransient = FALSE, !.onlyTransport = FALSE,
                           !.tail = s.buf]
       IN run' = [run EXCEPT ![r] = Continue(EndExchange(s2))]
    /\ UNCHANGED <<api_key_index, lock, clients, plugin, disk>>

(* Reading the body raises (httpx.ReadTimeout or another exception).       *)
StreamError(r) ==
    /\ run[r].pc \in {"sse", "ndjson"}
    /\ Scheduled(r)
    /\ LET s == run[r]
           s2 == Logged(s, 0, "transport")
       IN run' = [run EXCEPT ![r] = Continue(EndExchange(s2))]
    /\ UNCHANGED <<api_key_index, lock, clients, plugin, disk>>

(* The caller gets the returned tuple; the state of the call is gone and   *)
(* the caller may call again.                                              *)
Finish(r) ==
    /\ run[r].pc = "done"
    /\ Scheduled(r)
    /\ run' = [run EXCEPT ![r] = IdleRun]
    /\ UNCHANGED <<api_key_index, lock, clients, plugin, disk>>

(* --------------------------- specification ----------------------------- *)
Modes == {"buffered", "stream"}

Next ==
    \E r \in Runs :
        \/ \E mode \in Modes, in \in KeyInputs, m \in 0..MaxAttempts :
              Call(r, mode, in, m)
        \/ GetNextKey(r)
        \/ Sleep(r)
        \/ Post(r)
        \/ \E resp \in BufferedResponses : RecvBuffered(r, resp)
        \/ \E resp \in StreamResponses : RecvStream(r, resp)
        \/ \E line \in SseLines : ReadLine(r, line)
        \/ \E chunk \in Chunks : ReadChunk(r, chunk)
        \/ StreamEnd(r)
        \/ StreamError(r)
        \/ Rotate(r)

(* One call of an orchestrator, made in the state after construction.      *)
Spec == Init /\ [][Next]_vars

(* One call under fair scheduling: the event loop resumes a coroutine      *)
(* that is ready, a sleep ends, every exchange ends with a response or an  *)
(* error, and the body of every response ends.                             *)
Progress(r) ==
    \/ GetNextKey(r)
    \/ Sleep(r)
    \/ Post(r)
    \/ \E resp \in BufferedResponses : RecvBuffered(r, resp)
    \/ \E resp \in StreamResponses : RecvStream(r, resp)
    \/ StreamEnd(r)
    \/ Rotate(r)

SpecFair == Init /\ [][Next]_vars /\ \A r \in Runs : WF_vars(Progress(r))

(* -------------------------- concurrent runs ---------------------------- *)
(* Both runs are called, once each, so that they interleave at their       *)
(* suspension points: the sleep, the exchange and the reads of the         *)
(* stream.  The backend answers from a part of its answers: a rejection,   *)
(* a failure that is retried, an image, and an SSE stream made of          *)
(* comments and image frames that may end at any point.                    *)
InitConc ==
    /\ api_key_index = 0
    /\ lock = Free
    /\ run = [r \in Runs |-> IdleRun]
    /\ clients = Runs
    /\ clock = 0
    /\ files = EmptyDir
    /\ last = NoCall
    /\ tool = IdleTool
    /\ config = DefaultConfig
    /\ group_call_bucket = NoBuckets
    /\ now = 0
    /\ checks = NoChecks

ConcAttempts == {2}
ConcKeyInputs == KeyInputs \cup {[isstr |-> FALSE, val |-> <<EmptyKey>>]}
ConcBuffered ==
    {TransportError, Resp("http", 400, "", D_notjson),
     Resp("http", 200, "application/json", D_img)}
ConcStream ==
    {Resp("http", 400, "", D_notjson),
     Resp("http", 200, "text/event-stream", D_notjson)}
ConcLines == {SseLine(":", FALSE, D_notjson), SseLine("data:", FALSE, D_img)}

NextConc ==
    \E r \in Runs :
        \/ \E mode \in Modes, in \in ConcKeyInputs, m \in ConcAttempts :
              Call(r, mode, in, m)
        \/ GetNextKey(r)
        \/ Sleep(r)
        \/ Post(r)
        \/ \E resp \in ConcBuffered : RecvBuffered(r, resp)
        \/ \E resp \in ConcStream : RecvStream(r, resp)
        \/ \E line \in ConcLines : ReadLine(r, line)
        \/ StreamEnd(r)
        \/ Rotate(r)

SpecConc == InitConc /\ [][NextConc]_vars

(* Calls made one after another by one caller: the cursor and the images   *)
(* directory are what the calls before have left.  The backend answers     *)
(* as it does to the concurrent runs.                                      *)
NextSeq ==
    \/ NextConc
    \/ \E r \in Runs : Finish(r)

SpecSeq == Init /\ [][NextSeq]_vars

(* ------------------- direct calls of the persister --------------------- *)
(* The wall clock reaches the next second.                                 *)
Tick ==
    /\ clock + 1 \in Seconds
    /\ clock' = clock + 1
    /\ UNCHANGED <<api_key_index, lock, run, clients, plugin, files, last>>

(* One call of _decode_and_save_base64(data_b64, mime).                    *)
Persist(data_b64, mime, uid) ==
    /\ last.n < MaxOps
    /\ LET res == decode_and_save_base64(data_b64, mime, clock, uid, files)
       IN /\ files' = res.files
          /\ last' = [NoCall EXCEPT
                        !.fn = "decode", !.n = last.n + 1,
                        !.data = data_b64, !.mime = mime,
                        !.raised = res.raised, !.bytes = res.bytes,
                        !.suffix = res.suffix, !.path = res.path,
                        !.existed = ~res.raised /\ res.path \in DOMAIN files]
    /\ UNCHANGED <<api_key_index, lock, run, clients, plugin, clock>>

(* One call of _parse_generate_content_json_for_image(data) on a decoded   *)
(* JSON value: the scan runs inside try/except, and the part it finds is   *)
(* decoded and saved.                                                      *)
ParseFrame(doc, uid) ==
    /\ last.n < MaxOps
    /\ doc.json
    /\ LET found == ParseForImage(doc) = "image"
           res == SavedBy(doc, clock, uid, files)
       IN /\ files' = IF found THEN res.files ELSE files
          /\ last' = [NoCall EXCEPT
                        !.fn = "parse", !.n = last.n + 1, !.doc = doc,
                        !.data = IF doc.dict /\ ScanCandidates(doc) # "none"
                                 THEN PartData(FirstInline(doc.cands[1]))
                                 ELSE <<>>,
                        !.scan = ParseForImage(doc),
                        !.bytes = IF found THEN res.bytes ELSE <<>>,
                        !.suffix = IF found THEN res.suffix ELSE "",
                        !.path = IF found THEN res.path ELSE NoPath,
                        !.existed = found /\ res.path \in DOMAIN files]
    /\ UNCHANGED <<api_key_index, lock, run, clients, plugin, clock>>

NextPersist ==
    \/ Tick
    \/ \E data_b64 \in DataInputs, mime \in Mimes, uid \in Uids :
          Persist(data_b64, mime, uid)
    \/ \E doc \in Docs, uid \in Uids : ParseFrame(doc, uid)

SpecPersist == Init /\ [][NextPersist]_vars

(* ------------------------- gemini_image_tool --------------------------- *)
(* self.use_stream = True, and the two endpoint paths.                     *)
use_stream == TRUE
GEN_PATH == "generateContent"
STREAM_GEN_PATH == "streamGenerateContent"

(* self.gcli2api_api_password: a password, or the empty string.            *)
Passwords == {1, EmptyKey}

(* if not image_path: the failure message is yielded and the tool          *)
(* returns; else the image goes on to be sent.                             *)
ToolCheck(t) ==
    IF t.image_path = NoPath
    THEN [t EXCEPT !.out = Append(@, "failed"), !.pc = "done"]
    ELSE [t EXCEPT !.pc = "send"]

(* except Exception: the message of the exception is yielded.              *)
ToolExcept(t) == [t EXCEPT !.out = Append(@, "error"), !.pc = "done"]

(* The tool is invoked: the configuration is read and the first            *)
(* orchestrator is about to be called.                                     *)
ToolStart(pw, m) ==
    /\ tool.pc = "idle"
    /\ \A r \in Runs : run[r].pc = "idle"
    /\ tool' = [IdleTool EXCEPT
                  !.pc = IF use_stream THEN "call_stream" ELSE "call_direct",
                  !.endpoint = IF use_stream THEN STREAM_GEN_PATH ELSE GEN_PATH,
                  !.keys = <<pw>>, !.m = m]
    /\ UNCHANGED <<api_key_index, lock, run, clients, disk, group>>

(* The orchestrator the tool is calling, until it has been called.         *)
ToolMode ==
    IF tool.pc = "call_stream" THEN {"stream"}
    ELSE IF tool.pc \in {"call_buffered", "call_direct"} THEN {"buffered"}
    ELSE {}

(* await generate_or_edit_image_gemini_stream(...) and await               *)
(* generate_or_edit_image_gemini(...), with api_keys a list of one         *)
(* element and max_retry_attempts from the configuration.                  *)
ToolCall(r, mode) ==
    /\ mode \in ToolMode
    /\ Call(r, mode, [isstr |-> FALSE, val |-> tool.keys], tool.m)

(* generate_or_edit_image_gemini_stream has returned: without an image     *)
(* path the buffered orchestrator is called on the generateContent path.   *)
ToolStreamReturned_AlwaysFallback(r) ==
    /\ tool.pc = "call_stream"
    /\ run[r].pc \in {"done", "raised"}
    /\ LET t == [tool EXCEPT
                   !.image_path = run[r].path,
                   !.calls = Append(@, [mode |-> run[r].mode,
                                        path |-> run[r].path])]
       IN tool' = IF run[r].pc = "raised" THEN ToolExcept(tool)
                  ELSE [t EXCEPT !.pc = "call_buffered",
                                 !.endpoint = GEN_PATH]
    /\ run' = [run EXCEPT ![r] = IdleRun]
    /\ UNCHANGED <<api_key_index, lock, clients, disk, group>>
ToolStreamReturned(r) ==
    /\ tool.pc = "call_stream"
    /\ run[r].pc \in {"done", "raised"}
    /\ LET t == [tool EXCEPT
                   !.image_path = run[r].path,
                   !.calls = Append(@, [mode |-> run[r].mode,
                                        path |-> run[r].path])]
       IN tool' = IF run[r].pc = "raised" THEN ToolExcept(tool)
                  ELSE IF t.image_path = NoPath
                       THEN [t EXCEPT !.pc = "call_buffered",
                                      !.endpoint = GEN_PATH]
                       ELSE ToolCheck(t)
    /\ run' = [run EXCEPT ![r] = IdleRun]
    /\ UNCHANGED <<api_key_index, lock, clients, disk, group>>

(* generate_or_edit_image_gemini has returned.                             *)
ToolBufferedReturned(r) ==
    /\ tool.pc \in {"call_buffered", "call_direct"}
    /\ run[r].pc \in {"done", "raised"}
    /\ LET t == [tool EXCEPT
                   !.image_path = run[r].path,
                   !.calls = Append(@, [mode |-> run[r].mode,
                                        path |-> run[r].path])]
       IN tool' = IF run[r].pc = "raised" THEN ToolExcept(tool)
                  ELSE ToolCheck(t)
    /\ run' = [run EXCEPT ![r] = IdleRun]
    /\ UNCHANGED <<api_key_index, lock, clients, disk, group>>

(* The image is sent: send_file may have moved it (its exceptions are      *)
(* caught), and the image component is yielded.                            *)
ToolSend ==
    /\ tool.pc = "send"
    /\ tool' = [tool EXCEPT !.out = Append(@, "image"), !.pc = "done"]
    /\ UNCHANGED <<api_key_index, lock, run, clients, disk, group>>

NextTool ==
    \/ \E pw \in Passwords, m \in 0..MaxAttempts : ToolStart(pw, m)
    \/ ToolSend
    \/ \E r \in Runs :
          \/ \E mode \in Modes : ToolCall(r, mode)
          \/ GetNextKey(r)
          \/ Sleep(r)
          \/ Post(r)
          \/ \E resp \in BufferedResponses : RecvBuffered(r, resp)
          \/ \E resp \in StreamResponses : RecvStream(r, resp)
          \/ \E line \in SseLines : ReadLine(r, line)
          \/ \E chunk \in Chunks : ReadChunk(r, chunk)
          \/ StreamEnd(r)
          \/ StreamError(r)
          \/ Rotate(r)
          \/ ToolStreamReturned(r)
          \/ ToolBufferedReturned(r)

SpecTool == Init /\ [][NextTool]_vars

(* ------------------------ _check_group_access -------------------------- *)
(* event.get_group_id(): a group, or None in a private chat (and when the  *)
(* call raises).                                                           *)
NoGroup == "None"
Groups == {"g1", "g2"}

(* The configurations of the group control that are tried.                 *)
Windows == {0, 2}
Configs ==
    {GroupConfig(mode, list, window, max) :
        mode \in {"off", "whitelist", "blacklist"}, list \in {{"g1"}},
        window \in Windows, max \in 0..MaxCalls}

(* _check_group_access at time t: err is the message returned, "" for     *)
(* None, and buckets is self._group_call_bucket afterwards.  The window    *)
(* is started anew in the local variables when it is over, and the         *)
(* bucket is stored only when the call is let through.                     *)
check_group_access_OffByOne(gid, cfg, buckets, t) ==
    IF gid = NoGroup THEN [err |-> "", buckets |-> buckets]
    ELSE IF cfg.group_control_mode = "whitelist" /\ gid \notin cfg.group_list
         THEN [err |-> "unauthorized", buckets |-> buckets]
    ELSE IF cfg.group_control_mode = "blacklist" /\ gid \in cfg.group_list
         THEN [err |-> "restricted", buckets |-> buckets]
    ELSE LET b == IF gid \in DOMAIN buckets THEN buckets[gid]
                  ELSE [window_start |-> t, count |-> 0]
             over == t - b.window_start >= cfg.group_rate_window_seconds
             window_start == IF over THEN t ELSE b.window_start
             count == IF over THEN 0 ELSE b.count
         IN IF count > cfg.group_rate_max_calls
            THEN [err |-> "limit", buckets |-> buckets]
            ELSE [err |-> "",
                  buckets |->
                      [g \in DOMAIN buckets \cup {gid} |->
                          IF g = gid
                          THEN [window_start |-> window_start,
                                count |-> count + 1]
                          ELSE buckets[g]]]
check_group_access(gid, cfg, buckets, t) ==
    IF gid = NoGroup THEN [err |-> "", buckets |-> buckets]
    ELSE IF cfg.group_control_mode = "whitelist" /\ gid \notin cfg.group_list
         THEN [err |-> "unauthorized", buckets |-> buckets]
    ELSE IF cfg.group_control_mode = "blacklist" /\ gid \in cfg.group_list
         THEN [err |-> "restricted", buckets |-> buckets]
    ELSE LET b == IF gid \in DOMAIN buckets THEN buckets[gid]
                  ELSE [window_start |-> t, count |-> 0]
             over == t - b.window_start >= cfg.group_rate_window_seconds
             window_start == IF over THEN t ELSE b.window_start
             count == IF over THEN 0 ELSE b.count
         IN IF count >= cfg.group_rate_max_calls
            THEN [err |-> "limit", buckets |-> buckets]
            ELSE [err |-> "",
                  buckets |->
                      [g \in DOMAIN buckets \cup {gid} |->
                          IF g = gid
                          THEN [window_start |-> window_start,
                                count |-> count + 1]
                          ELSE buckets[g]]]

(* cmd_edit on a message of group gid that carries an image or not: the    *)
(* access check, then the test for an image, then gemini_image_tool.       *)
CmdEdit(gid, has_image) ==
    /\ Len(checks.calls) < MaxChecks
    /\ LET res == check_group_access(gid, config, group_call_bucket, now)
       IN /\ group_call_bucket' = res.buckets
          /\ checks' = [calls |-> Append(checks.calls,
                                        [gid |-> gid, t |-> now,
                                         err |-> res.err]),
                        before |-> group_call_bucket,
                        then |-> IF res.err # "" THEN "rejected"
                                 ELSE IF ~has_image THEN "no_image"
                                 ELSE "tool"]
    /\ UNCHANGED <<api_key_index, lock, run, clients, disk, tool, config, now>>

(* time.time() goes on.                                                    *)
TimePasses ==
    /\ now < MaxTime
    /\ now' = now + 1
    /\ UNCHANGED <<api_key_index, lock, run, clients, disk, tool, config,
                   group_call_bucket, checks>>

InitGroup ==
    /\ api_key_index = 0
    /\ lock = Free
    /\ run = [r \in Runs |-> IdleRun]
    /\ clients = {1}
    /\ clock = 0
    /\ files = EmptyDir
    /\ last = NoCall
    /\ tool = IdleTool
    /\ config \in Configs
    /\ group_call_bucket = NoBuckets
    /\ now = 0
    /\ checks = NoChecks

NextGroup ==
    \/ \E gid \in Groups \cup {NoGroup}, has_image \in BOOLEAN :
          CmdEdit(gid, has_image)
    \/ TimePasses

SpecGroup == InitGroup /\ [][NextGroup]_vars

TypeOK ==
    /\ api_key_index \in 0..(MaxKeys - 1)
    /\ lock \in {Free} \cup Runs
    /\ \A r \in Runs : run[r].posts <= MaxKeys * MaxAttempts

(* ------------------------------ properties ----------------------------- *)
NumKeys(r) == Len(run[r].api_keys)
Budget(r) == run[r].max_retry_attempts
PostsIn(log) == SelectSeq(log, LAMBDA e : e.op = "post")
Last(log) == log[Len(log)]
Failed(r) == run[r].pc = "done" /\ run[r].result = "none" /\ NumKeys(r) > 0
InPass(r) == run[r].pc \in {"sleep", "post", "inflight", "sse", "ndjson"}
AfterRotate(r) == run[r].pc \in {"getkey", "done"}

C2_ErrorFrameEndsKeyPass ==
    \A r \in Runs :
        run[r].mode = "stream" =>
            \A i \in 1..Len(run[r].log) :
                run[r].log[i].out = "errframe"
                    => i = Len(run[r].log) /\ ~InPass(r)

(* C3: in the streaming orchestrator on an SSE response, when the k-th     *)
(* data frame is the first that yields a decodable inline image, the run   *)
(* has returned that image with exactly k frames consumed, the exchange    *)
(* is the last entry of the log and the cursor is where it was peeked.     *)
C3_FirstImageFrameReturns ==
    \A r \in Runs :
        (run[r].mode = "stream" /\ run[r].firstImg # 0) =>
            /\ run[r].pc = "done" /\ run[r].result = "image"
            /\ run[r].frames = run[r].firstImg
            /\ Last(run[r].log).out = "image"
            /\ Len(PostsIn(run[r].log)) = run[r].attempt + 1
            /\ api_key_index = run[r].peeked
            /\ run[r].rotations = run[r].key_attempt

C3_Witness ==
    \E r \in Runs :
        /\ run[r].pc = "done" /\ run[r].result = "image"
        /\ run[r].mode = "stream" /\ IsSSE(run[r].ctype)
        /\ run[r].firstImg = 4 /\ run[r].frames = 4

(* C4: in either orchestrator a successful attempt is the last thing the   *)
(* run does: the run is done with the image, no POST or sleep follows the  *)
(* successful exchange, rotate was not called after the key was peeked,    *)
(* and a success on the very first attempt means one POST, no sleep and    *)
(* no rotation.                                                            *)
C4_SuccessReturnsImmediately ==
    \A r \in Runs :
        \A i \in 1..Len(run[r].log) :
            run[r].log[i].out = "image" =>
                /\ i = Len(run[r].log)
                /\ run[r].pc = "done" /\ run[r].result = "image"
                /\ api_key_index = run[r].peeked
                /\ run[r].rotations = run[r].key_attempt
                /\ (i = 1 /\ run[r].key_attempt = 0) =>
                       /\ run[r].posts = 1
                       /\ run[r].nsleeps = 0
                       /\ run[r].rotations = 0

C4_Witness ==
    \E r \in Runs :
        /\ run[r].pc = "done" /\ run[r].result = "image"
        /\ run[r].mode = "buffered"
        /\ run[r].posts = 1 /\ run[r].nsleeps = 0 /\ run[r].rotations = 0

(* C5: in the buffered orchestrator with one key, when the backend has     *)
(* answered 429, 429 and then 200 with an inline image, the run made       *)
(* exactly 3 POSTs with the same key and 2 sleeps, the second longer than  *)
(* the first, returned the image and left the cursor where it was.         *)
C5_Scenario(r) ==
    /\ run[r].mode = "buffered" /\ NumKeys(r) = 1
    /\ Len(PostsIn(run[r].log)) = 3
    /\ PostsIn(run[r].log)[1].status = 429
    /\ PostsIn(run[r].log)[2].status = 429
    /\ PostsIn(run[r].log)[3].out = "image"

C5_ThrottledTwiceThenImage ==
    \A r \in Runs :
        C5_Scenario(r) =>
            /\ Len(run[r].log) = 5
            /\ run[r].log[2].op = "sleep" /\ run[r].log[4].op = "sleep"
            /\ run[r].log[2].d < run[r].log[4].d
            /\ \A i \in 1..5 : run[r].log[i].key = run[r].log[1].key
            /\ run[r].posts = 3 /\ run[r].nsleeps = 2
            /\ run[r].pc = "done" /\ run[r].result = "image"
            /\ run[r].rotations = 0
            /\ api_key_index = run[r].peeked

C5_Witness ==
    \E r \in Runs : C5_Scenario(r) /\ run[r].pc = "done" /\ Budget(r) >= 3

(* C6: in the buffered orchestrator an attempt that ended with 429, with   *)
(* status >= 500 or with a transport error, while fewer than               *)
(* max_retry_attempts attempts were made with the key, is followed by a    *)
(* sleep and another POST with the same key, the cursor not rotated.       *)
C6_Retryable(e) ==
    /\ e.op = "post"
    /\ (e.status = 429 \/ e.status >= 500 \/ e.out = "transport")

C6_TransientIsRetriedOnSameKey ==
    \A r \in Runs :
        run[r].mode = "buffered" =>
            \A i \in 1..Len(run[r].log) :
                (/\ C6_Retryable(run[r].log[i])
                 /\ Len(PostsIn(SubSeq(run[r].log, 1, i))) < Budget(r)) =>
                    /\ i = Len(run[r].log) => run[r].pc = "sleep"
                    /\ i < Len(run[r].log) => run[r].log[i + 1].op = "sleep"
                    /\ i + 1 = Len(run[r].log) => run[r].pc \in {"post", "inflight"}
                    /\ i + 1 < Len(run[r].log) =>
                           /\ run[r].log[i + 2].op = "post"
                           /\ run[r].log[i + 2].key = run[r].log[i].key
                    /\ InPass(r) =>
                           /\ api_key_index = run[r].peeked
                           /\ run[r].current_key = run[r].log[i].key

C6_Witness ==
    \E r \in Runs :
        /\ run[r].mode = "buffered" /\ Len(run[r].log) >= 5
        /\ run[r].log[1].out = "transport"
        /\ run[r].log[3].status = 500
        /\ run[r].log[5].op = "post"

(* C7 as stated: in the streaming orchestrator an exchange whose status    *)
(* is 429 or >= 500, while the attempt budget of the key is not used up,   *)
(* is followed by the backoff sleep of another attempt with the same key.  *)
C7_StreamStatusIsRetried ==
    \A r \in Runs :
        run[r].mode = "stream" =>
            \A i \in 1..Len(run[r].log) :
                (/\ run[r].log[i].op = "post"
                 /\ (run[r].log[i].status = 429 \/ run[r].log[i].status >= 500)
                 /\ Len(PostsIn(SubSeq(run[r].log, 1, i))) < Budget(r)) =>
                    /\ i = Len(run[r].log) => run[r].pc = "sleep"
                    /\ i < Len(run[r].log) => run[r].log[i + 1].op = "sleep"

(* C8: in either orchestrator an exchange answered with a 4xx status       *)
(* other than 429 is the last attempt of its key pass: no sleep and no     *)
(* POST follows, the run goes to rotate, the cursor is advanced by one     *)
(* modulo the number of keys, and the run goes on with the next key pass   *)
(* if one remains and otherwise reports failure.                           *)
C8_Rejected(e) ==
    e.op = "post" /\ e.status >= 400 /\ e.status <= 499 /\ e.status # 429

C8_ClientRejectedRotates ==
    \A r \in Runs :
        \A i \in 1..Len(run[r].log) :
            C8_Rejected(run[r].log[i]) =>
                /\ i = Len(run[r].log)
                /\ run[r].pc = "rotate" \/ AfterRotate(r)
                /\ run[r].pc = "rotate" =>
                       /\ api_key_index = run[r].peeked
                       /\ run[r].rotations = run[r].key_attempt
                /\ AfterRotate(r) =>
                       /\ api_key_index = (run[r].peeked + 1) % NumKeys(r)
                       /\ run[r].rotations = run[r].key_attempt
                       /\ run[r].pc = "done" <=> run[r].key_attempt = NumKeys(r)
                       /\ run[r].pc = "done" => run[r].result = "none"

C8_Witness ==
    \E r \in Runs :
        /\ NumKeys(r) = 2 /\ run[r].pc = "getkey" /\ run[r].key_attempt = 1
        /\ run[r].log # <<>> /\ C8_Rejected(Last(run[r].log))
        /\ Len(PostsIn(run[r].log)) < Budget(r)
        /\ api_key_index = (run[r].peeked + 1) % 2

(* C9 as stated: in the buffered orchestrator with at least two keys, a    *)
(* 200 response with an error object or without inline image ends the key  *)
(* pass and goes to rotation, so the run cannot report failure before the  *)
(* next key was tried.                                                     *)
C9_NoImageFallsThroughToRotation ==
    \A r \in Runs :
        (/\ run[r].mode = "buffered" /\ NumKeys(r) >= 2
         /\ run[r].log # <<>>
         /\ Last(run[r].log).out \in {"error200", "noimage"}) =>
            /\ run[r].pc = "rotate" \/ AfterRotate(r)
            /\ run[r].pc = "done" => run[r].key_attempt = NumKeys(r)

(* C10 as stated: in either orchestrator an attempt whose inline payload   *)
(* failed base64 decoding is the last attempt of its key pass: no sleep    *)
(* and no POST with the same key follows it.                               *)
C10_MalformedIsNotRetried ==
    \A r \in Runs :
        \A i \in 1..Len(run[r].log) :
            run[r].log[i].out = "malformed"
                => i = Len(run[r].log) /\ ~InPass(r)

(* C11 as stated: in the streaming orchestrator a 200 exchange whose       *)
(* stream ended normally without an image (a [DONE] / DONE payload, or     *)
(* the end of the body) is the last attempt of its key pass: no frame of   *)
(* that exchange is read afterwards, and no sleep and no POST with the     *)
(* same key follows it.                                                    *)
C11_NormalEndEndsKeyPass ==
    \A r \in Runs :
        run[r].mode = "stream" =>
            \A i \in 1..Len(run[r].log) :
                run[r].log[i].out \in {"done", "eos"}
                    => i = Len(run[r].log) /\ ~InPass(r)

(* C12 as stated: a run that made N = len(keys) calls of rotate, with no   *)
(* other run in between, leaves api_key_index at the value it had when     *)
(* the run was called; and while a run with a single key is in progress    *)
(* api_key_index is 0.                                                     *)
C12_FullCycleRestoresCursor ==
    \A r \in Runs :
        /\ (run[r].pc = "done" /\ NumKeys(r) >= 1
            /\ run[r].rotations = NumKeys(r))
               => api_key_index = run[r].idx0
        /\ (run[r].pc # "idle" /\ NumKeys(r) = 1) => api_key_index = 0

(* C13: a call of either orchestrator with an empty key list has returned  *)
(* (None, None) in its first step: no key was asked for, no POST was       *)
(* sent, no sleep was made, rotate was not called and api_key_index is     *)
(* what it was at the call.  On an empty list get_next_key raises and      *)
(* rotate leaves the cursor as it is.                                      *)
C13_EmptyKeyListIsFatal ==
    /\ \A r \in Runs :
          (run[r].pc # "idle" /\ run[r].api_keys = <<>>) =>
              /\ run[r].pc = "done" /\ run[r].result = "none"
              /\ run[r].posts = 0 /\ run[r].nsleeps = 0
              /\ run[r].rotations = 0
              /\ run[r].tried = <<>> /\ run[r].log = <<>>
              /\ api_key_index = run[r].idx0
    /\ get_next_key(<<>>, api_key_index).raised
    /\ rotate(<<>>, api_key_index) = api_key_index

C13_Witness ==
    \E r \in Runs :
        /\ run[r].pc = "done" /\ run[r].api_keys = <<>>
        /\ run[r].mode = "stream"
        /\ api_key_index = 1

(* C14: a call of either orchestrator never ends in an exception: when it  *)
(* is done it has returned an image path or (None, None), whatever the     *)
(* exchanges answered.  A returned path is the path of a file in the       *)
(* images directory that holds the decoded bytes of the inline image, and  *)
(* the exchange that yielded it is the last one of the run.                *)
C14_OnlyTerminalOutcomeReturned ==
    \A r \in Runs :
        /\ run[r].pc # "raised"
        /\ run[r].pc = "done" =>
              /\ run[r].result \in {"image", "none"}
              /\ run[r].result = "none" => run[r].path = NoPath
              /\ run[r].result = "image" =>
                    /\ run[r].path \in DOMAIN files
                    /\ files[run[r].path] = b64decode(PartData("inline_ok")).bytes
                    /\ Last(run[r].log).out = "image"

C14_Witness ==
    \E r \in Runs :
        /\ run[r].pc = "done" /\ run[r].result = "image"
        /\ run[r].mode = "buffered"
        /\ run[r].path \in DOMAIN files
        /\ Len(run[r].log) = 5
        /\ run[r].log[1].out = "transport"
        /\ run[r].log[3].out = "malformed"

(* C15 as stated: when some candidate of the document has a part with a    *)
(* non-empty inline payload, the parser hands the first such part, in      *)
(* candidates-then-parts order, to the decoder, whichever candidate it is  *)
(* in; it finds nothing only when no candidate has such a part.            *)
C15_InlineParts(doc) ==
    {<<c, i>> \in (1..Len(doc.cands)) \X (1..2) :
        i <= Len(doc.cands[c]) /\ PartData(doc.cands[c][i]) # <<>>}
C15_FirstInlinePart(doc) ==
    CHOOSE x \in C15_InlineParts(doc) :
        \A y \in C15_InlineParts(doc) :
            x[1] < y[1] \/ (x[1] = y[1] /\ x[2] <= y[2])
C15_FirstInlineOfAnyCandidate ==
    (last.fn = "parse" /\ last.doc.dict) =>
        IF C15_InlineParts(last.doc) = {}
        THEN last.scan = "none" /\ last.data = <<>>
        ELSE LET x == C15_FirstInlinePart(last.doc)
             IN last.data = PartData(last.doc.cands[x[1]][x[2]])

(* C16 as stated: no persist operation writes to a path at which a file    *)
(* already exists, so any two persist operations write to distinct paths.  *)
C16_PersistNeverOverwrites == ~last.existed

(* C17: _decode_and_save_base64 applied to a data URL, the header          *)
(* "data:image/png;base64," followed by a payload p, decodes and writes    *)
(* the same bytes under the same suffix as it does applied to p alone,     *)
(* and raises when that raises.                                            *)
C17_DataUrlHeaderIsStripped ==
    \A p \in Payloads :
        (last.fn = "decode" /\ last.data = DataUrl(p)) =>
            LET alone == decode_and_save_base64(p, last.mime, clock,
                                                last.path.uid, EmptyDir)
            IN /\ last.raised = alone.raised
               /\ last.bytes = alone.bytes
               /\ last.suffix = alone.suffix
               /\ ~last.raised =>
                     /\ last.path \in DOMAIN files
                     /\ files[last.path] = alone.files[alone.path]
                     /\ last.path.suffix = alone.path.suffix

C17_Witness ==
    /\ last.fn = "decode" /\ last.data = DataUrl(<<"QUJD">>)
    /\ ~last.raised /\ last.bytes = <<65, 66, 67>>
    /\ last.mime = Mime(<<"image/", "jpeg">>)
    /\ last.path \in DOMAIN files

(* C18: the suffix of a persisted file depends on the MIME type only: a    *)
(* type naming jpeg or jpg gives jpg, webp gives webp, png gives png, a    *)
(* missing, empty or other type gives png; whatever the payload, the       *)
(* second and the random part of the name.                                 *)
C18_Names(word) == last.mime.present /\ word \in Range(last.mime.text)
C18_SuffixFollowsMime ==
    (last.fn = "decode" /\ ~last.raised) =>
        /\ last.path \in DOMAIN files
        /\ last.path.suffix =
              IF C18_Names("jpeg") \/ C18_Names("jpg") THEN "jpg"
              ELSE IF C18_Names("webp") THEN "webp"
              ELSE "png"

C18_Witness ==
    /\ last.fn = "decode" /\ ~last.raised
    /\ last.mime = Mime(<<"image/", "webp">>)
    /\ last.path.suffix = "webp" /\ last.path \in DOMAIN files
    /\ \E q \in DOMAIN files : q.suffix = "jpg"

(* C19 as stated: when runs that share the rotator interleave, each run    *)
(* is given every key of its list at most once, and the i-th key it is     *)
(* given is the one in rotation order i - 1 places after the cursor value  *)
(* the run saw when it was called.                                         *)
C19_EachKeyOncePerRun ==
    \A r \in Runs :
        /\ \A i, j \in 1..Len(run[r].tried) :
              i # j => run[r].tried[i] # run[r].tried[j]
        /\ \A i \in 1..Len(run[r].tried) :
              run[r].tried[i] =
                  run[r].api_keys[((run[r].idx0 + i - 1) % NumKeys(r)) + 1]

(* C20 as stated: while a call with a non-empty key list is in progress,   *)
(* api_key_index is an index of that list.                                 *)
C20_CursorWithinKeyList ==
    \A r \in Runs :
        (run[r].pc \notin {"idle", "done"} /\ NumKeys(r) >= 1)
            => api_key_index \in 0..(NumKeys(r) - 1)

(* C21: the lock of the rotator is held only inside get_next_key and       *)
(* rotate: while a run is in a backoff sleep, in an HTTP exchange or       *)
(* reading a stream it does not hold the lock, and a run that is about to  *)
(* call get_next_key or rotate while the others are suspended finds the    *)
(* lock free.                                                              *)
C21_Awaiting(r) == run[r].pc \in {"sleep", "inflight", "sse", "ndjson"}
C21_LockNotHeldAcrossAwait ==
    \A r \in Runs :
        /\ C21_Awaiting(r) => lock # r
        /\ (run[r].pc \in {"getkey", "rotate"} /\ Scheduled(r)) => lock = Free

(* Run 1 is still in the first exchange of the key it peeked at cursor 0,  *)
(* and run 2 has rotated the cursor meanwhile.                             *)
C21_Witness ==
    /\ run[1].pc = "inflight" /\ run[1].posts = 1 /\ run[1].peeked = 0
    /\ run[2].rotations = 1 /\ api_key_index = 1
    /\ run[2].pc = "getkey" /\ lock = Free

(* C22: every request of a key pass carries the credential that           *)
(* get_next_key gave at the start of the pass, in the query parameter and  *)
(* in both headers, whatever the other runs have done to the cursor        *)
(* between the attempts; an empty credential is carried nowhere.           *)
C22_PassUsesPeekedKey ==
    \A r \in Runs :
        \A i \in 1..Len(run[r].sent) :
            LET k == Last(run[r].tried)
                req == run[r].sent[i]
            IN /\ k = run[r].api_keys[(run[r].peeked % NumKeys(r)) + 1]
               /\ k # EmptyKey =>
                     /\ req.query = <<k>>
                     /\ req.x_goog_api_key = <<k>>
                     /\ req.authorization = <<"Bearer", k>>
               /\ k = EmptyKey =>
                     /\ req.query = <<>>
                     /\ req.x_goog_api_key = <<>>
                     /\ req.authorization = <<>>

(* The second request of a pass is under way, and the cursor that was at   *)
(* the key of the pass has been moved to another key by the other run.     *)
C22_Witness ==
    \E r \in Runs :
        /\ run[r].pc = "inflight" /\ Len(run[r].sent) = 2
        /\ NumKeys(r) = 2
        /\ api_key_index # run[r].peeked
        /\ run[r].sent[2].query = <<run[r].current_key>>
        /\ run[r].sent[1] = run[r].sent[2]

(* C23 as stated: no sleep precedes the first attempt of a key pass; the   *)
(* sleep before the attempt with 0-based index a >= 1 lasts min(2^a, 10),  *)
(* so the sleeps of a pass never decrease and never exceed 10; no sleep    *)
(* follows the last attempt of a pass; and no sleep follows an outcome     *)
(* that is not retryable: a 4xx status other than 429, an error object,    *)
(* a 200 without image, or an inline payload that does not decode.         *)
C23_AttemptOf(log, i) == Len(PostsIn(SubSeq(log, 1, i)))
C23_NonRetryable(e) ==
    \/ C8_Rejected(e)
    \/ e.op = "post"
           /\ e.out \in {"error200", "errframe", "noimage", "done", "eos",
                         "malformed"}
C23_Schedule(r) ==
    LET log == run[r].log
    IN /\ log # <<>> => log[1].op = "post"
       /\ run[r].pc = "sleep" => log # <<>> /\ Last(log).op = "post"
       /\ \A i \in 1..Len(log) :
             log[i].op = "sleep" =>
                 LET a == C23_AttemptOf(log, i)
                 IN /\ a >= 1 /\ a < Budget(r)
                    /\ log[i].d = (IF 2 ^ a < 10 THEN 2 ^ a ELSE 10)
                    /\ \A j \in 1..(i - 1) :
                          log[j].op = "sleep" => log[j].d <= log[i].d
                    /\ i < Len(log) => log[i + 1].op = "post"
                    /\ i = Len(log) => InPass(r) /\ run[r].pc # "sleep"
C23_SleepsFollowSchedule ==
    \A r \in Runs :
        /\ C23_Schedule(r)
        /\ \A i \in 1..Len(run[r].log) :
              C23_NonRetryable(run[r].log[i])
                  => i = Len(run[r].log) /\ run[r].pc # "sleep"

(* The part of C23 about the times and the places of the sleeps alone.     *)
C23_ScheduleAlone == \A r \in Runs : C23_Schedule(r)

(* C24 as stated: in the streaming orchestrator on a body that is not     *)
(* SSE, a decoded line with an error member ends the exchange: nothing     *)
(* that arrives after it is read or decoded, and the exchange does not     *)
(* return an image.                                                        *)
C24_ErrorLineAbortsStream ==
    \A r \in Runs :
        run[r].errline =>
            /\ run[r].pc # "ndjson"
            /\ ~(run[r].pc = "done" /\ run[r].result = "image")

(* C25: gemini_image_tool calls the streaming orchestrator first; the     *)
(* buffered orchestrator is called, on the generateContent path, exactly   *)
(* when the streaming run returned no image path, and at most once; the    *)
(* failure message is yielded only when both runs returned no image path;  *)
(* and an invocation that has ended has yielded exactly one result, the    *)
(* image if a run returned a path and the failure message if none did.     *)
C25_NoImage(c) == c.path = NoPath
C26_OnlyTerminatedLinesDecoded ==
    \A r \in Runs :
        /\ (run[r].pc = "ndjson" /\ ~run[r].errline)
               => NL \notin Range(run[r].buf)
        /\ run[r].tail # <<>> =>
              /\ run[r].mode = "stream"
              /\ run[r].log # <<>> => Last(PostsIn(run[r].log)).out = "eos"
              /\ run[r].pc \in {"sleep", "post", "rotate", "getkey", "done"}
              /\ run[r].pc = "done" => run[r].result = "none"
              /\ run[r].path = NoPath

(* A body that was one JSON document with an image and no newline: the     *)
(* only exchange of the run ended on it and the run reported failure.      *)
C26_Witness ==
    \E r \in Runs :
        /\ run[r].tail = <<"img">>
        /\ run[r].pc = "done" /\ run[r].result = "none"
        /\ run[r].posts = 1

(* C27: a call of either orchestrator with N keys and attempt budget       *)
(* M >= 1 makes at most N*M exchanges, at most N*(M-1) sleeps and at most  *)
(* N rotations (with M = 0 it makes no exchange and no sleep); at most     *)
(* one exchange of the call is under way at a time, the one before it      *)
(* having ended; and, every exchange and every body ending, the call       *)
(* returns.                                                                *)
C27_InExchange(r) == run[r].pc \in {"inflight", "sse", "ndjson"}
C27_Bounds ==
    \A r \in Runs :
        /\ run[r].posts <= NumKeys(r) * Budget(r)
        /\ Budget(r) >= 1 => run[r].nsleeps <= NumKeys(r) * (Budget(r) - 1)
        /\ Budget(r) = 0 => run[r].nsleeps = 0
        /\ run[r].rotations <= NumKeys(r)
        /\ Len(PostsIn(run[r].log)) <= Budget(r)
        /\ Len(run[r].sent) - Len(PostsIn(run[r].log)) =
              (IF C27_InExchange(r) THEN 1 ELSE 0)
C27_CallTerminates ==
    /\ []C27_Bounds
    /\ \A r \in Runs : (run[r].pc # "idle") ~> (run[r].pc = "done")

(* Two keys, three attempts each, all of them made and failed.             *)
C27_Witness ==
    \E r \in Runs :
        /\ run[r].pc = "done" /\ run[r].result = "none"
        /\ NumKeys(r) = 2 /\ Budget(r) = 3
        /\ run[r].posts = 6 /\ run[r].nsleeps = 4 /\ run[r].rotations = 2

(* C28: for every group the calls let through within one window, from     *)
(* the stored window_start up to group_rate_window_seconds later, are at   *)
(* most group_rate_max_calls, and so is the stored count; a call that is   *)
(* turned down leaves every bucket as it was and does no image work; a     *)
(* call of a group that is let through stores the count of the window      *)
(* plus one, before the handler goes on, and touches no other bucket; a    *)
(* call without group is let through and changes no bucket.                *)
C28_Admitted(e, g) == e.gid = g /\ e.err = ""
C28_InWindow(g, w) ==
    {i \in 1..Len(checks.calls) :
        /\ C28_Admitted(checks.calls[i], g)
        /\ w <= checks.calls[i].t
        /\ checks.calls[i].t < w + config.group_rate_window_seconds}
C28_CountBefore(e) ==
    IF e.gid \in DOMAIN checks.before
       /\ e.t - checks.before[e.gid].window_start
              < config.group_rate_window_seconds
    THEN checks.before[e.gid].count
    ELSE 0
====
